---- MODULE Spec2Model ----
(***************************************************************************)
(* Model of the invoice scanner screen, src/app/(tabs)/index.tsx:          *)
(*   - parseInvoiceData, the regular-expression price parser, modelled at  *)
(*     the level of characters (a text is a sequence of one-character      *)
(*     strings) so that every pattern is matched the way the regular       *)
(*     expression engine matches it (leftmost, greedy, with backtracking); *)
(*   - the scan lifecycle: takePicture, extractInvoiceData, resetScanner.  *)
(***************************************************************************)
EXTENDS Integers, Sequences, FiniteSets, TLC

(***************************************************************************)
(* Characters and character classes                                        *)
(***************************************************************************)
NL == "\n"

Digits == {"0", "1", "2", "3", "4", "5", "6", "7", "8", "9"}

LowerLetters ==
  {"a", "b", "c", "d", "e", "f", "g", "h", "i", "j", "k", "l", "m",
   "n", "o", "p", "q", "r", "s", "t", "u", "v", "w", "x", "y", "z"}

UpperToLower ==
  [c \in {"A", "B", "C", "D", "E", "F", "G", "H", "I", "J", "K", "L", "M",
          "N", "O", "P", "Q", "R", "S", "T", "U", "V", "W", "X", "Y", "Z"} |->
     CASE c = "A" -> "a" [] c = "B" -> "b" [] c = "C" -> "c" [] c = "D" -> "d"
       [] c = "E" -> "e" [] c = "F" -> "f" [] c = "G" -> "g" [] c = "H" -> "h"
       [] c = "I" -> "i" [] c = "J" -> "j" [] c = "K" -> "k" [] c = "L" -> "l"
       [] c = "M" -> "m" [] c = "N" -> "n" [] c = "O" -> "o" [] c = "P" -> "p"
       [] c = "Q" -> "q" [] c = "R" -> "r" [] c = "S" -> "s" [] c = "T" -> "t"
       [] c = "U" -> "u" [] c = "V" -> "v" [] c = "W" -> "w" [] c = "X" -> "x"
       [] c = "Y" -> "y" [] c = "Z" -> "z"]

\* the /i flag: letters compare without case
Lower(c) == IF c \in DOMAIN UpperToLower THEN UpperToLower[c] ELSE c

\* \d
IsDigit(c) == c \in Digits

\* \s
SpaceChars == {" ", NL, "\t"}

\* [\d,]
DigitComma == Digits \cup {","}

\* \w
IsWordChar(c) == c \in Digits \/ Lower(c) \in LowerLetters \/ c = "_"

(***************************************************************************)
(* Numbers.  A price string is digits, an optional point and up to two     *)
(* more digits; its numeric value is kept exactly, in hundredths.          *)
(***************************************************************************)
NaN == -1

DigitVal(c) ==
  CASE c = "0" -> 0 [] c = "1" -> 1 [] c = "2" -> 2 [] c = "3" -> 3
    [] c = "4" -> 4 [] c = "5" -> 5 [] c = "6" -> 6 [] c = "7" -> 7
    [] c = "8" -> 8 [] c = "9" -> 9

DigitChar(n) ==
  CASE n = 0 -> "0" [] n = 1 -> "1" [] n = 2 -> "2" [] n = 3 -> "3"
    [] n = 4 -> "4" [] n = 5 -> "5" [] n = 6 -> "6" [] n = 7 -> "7"
    [] n = 8 -> "8" [] n = 9 -> "9"

RECURSIVE DigitsToNat(_)
DigitsToNat(s) ==
  IF s = <<>> THEN 0
  ELSE 10 * DigitsToNat(SubSeq(s, 1, Len(s) - 1)) + DigitVal(s[Len(s)])

RECURSIVE NatToDigits(_)
NatToDigits(n) ==
  IF n < 10 THEN <<DigitChar(n)>>
  ELSE Append(NatToDigits(n \div 10), DigitChar(n % 10))

\* first index >= i of s whose character is not in the class S (Len(s)+1 if none)
RECURSIVE SkipWhile(_, _, _)
SkipWhile(s, i, S) ==
  IF i > Len(s) \/ s[i] \notin S THEN i ELSE SkipWhile(s, i + 1, S)

\* parseFloat(price), in hundredths; NaN when the string starts with no number
ParseFloat(s) ==
  LET e1   == SkipWhile(s, 1, Digits)
      int  == SubSeq(s, 1, e1 - 1)
      dot  == e1 <= Len(s) /\ s[e1] = "."
      e2   == IF dot THEN SkipWhile(s, e1 + 1, Digits) ELSE e1
      frac == IF dot THEN SubSeq(s, e1 + 1, e2 - 1) ELSE <<>>
      f2   == IF Len(frac) = 0 THEN 0
              ELSE IF Len(frac) = 1 THEN 10 * DigitVal(frac[1])
              ELSE 10 * DigitVal(frac[1]) + DigitVal(frac[2])
  IN  IF Len(int) = 0 /\ Len(frac) = 0 THEN NaN
      ELSE 100 * DigitsToNat(int) + f2

\* a < b on numbers, false as soon as one side is NaN
NumLt(a, b) == a # NaN /\ b # NaN /\ a < b

\* n.toFixed(2) for a value kept in hundredths
ToFixed2(n) ==
  NatToDigits(n \div 100) \o <<".", DigitChar((n % 100) \div 10), DigitChar(n % 10)>>

\* price.replace(/,/g, "")
StripCommas(s) == SelectSeq(s, LAMBDA c : c # ",")

\* Math.max(...ns) for a non-empty sequence of numbers
RECURSIVE MaxOf(_)
MaxOf(ns) ==
  IF Len(ns) = 1 THEN ns[1]
  ELSE LET m == MaxOf(Tail(ns)) IN IF ns[1] >= m THEN ns[1] ELSE m

\* the price ceilings, in hundredths
CeilingAll == 10000000
CeilingItem == 100000

(***************************************************************************)
(* The regular expressions.  A match is the span of its capture group:     *)
(* characters start .. stop-1 of the text; ok is FALSE when there is none. *)
(***************************************************************************)
NoMatch == [ok |-> FALSE, start |-> 0, stop |-> 0]

Span(a, b) == [ok |-> TRUE, start |-> a, stop |-> b]

\* the captured string, match[1]
Capture(t, m) == SubSeq(t, m.start, m.stop - 1)

DigitAt(t, i) == i <= Len(t) /\ IsDigit(t[i])

\* ([\d,]+\.?\d{0,2}) at i: each part is greedy and what follows it can match
\* the empty string, so the first attempt is the match.  A third fraction
\* digit is simply left behind.
CapLoose(t, i) ==
  LET e1 == SkipWhile(t, i, DigitComma)
      e2 == IF e1 <= Len(t) /\ t[e1] = "." THEN e1 + 1 ELSE e1
      e3 == IF DigitAt(t, e2) THEN (IF DigitAt(t, e2 + 1) THEN e2 + 2 ELSE e2 + 1)
            ELSE e2
  IN  IF e1 = i THEN NoMatch ELSE Span(i, e3)

\* ([\d,]+\.?\d{2}) at i: [\d,]+ first takes the whole run; if no point and two
\* digits follow it, the engine gives characters of the run back one at a time
\* until two digits follow (\.? then matches nothing), so the last two digits
\* of a point-less run serve as the \d{2}.
CapStrict(t, i) ==
  LET e1   == SkipWhile(t, i, DigitComma)
      full == e1 <= Len(t) /\ t[e1] = "." /\ DigitAt(t, e1 + 1) /\ DigitAt(t, e1 + 2)
      ks   == {k \in (i + 1)..(e1 - 2) : IsDigit(t[k]) /\ IsDigit(t[k + 1])}
      kmax == CHOOSE k \in ks : \A j \in ks : j <= k
  IN  IF e1 = i THEN NoMatch
      ELSE IF full THEN Span(i, e1 + 3)
      ELSE IF ks # {} THEN Span(i, kmax + 2)
      ELSE NoMatch

\* \$\s*([\d,]+\.?\d{0,2}) anchored at i
DollarAt(t, i) ==
  IF t[i] = "$" THEN CapLoose(t, SkipWhile(t, i + 1, SpaceChars)) ELSE NoMatch

\* a word boundary \b between characters i-1 and i
IsWordAt(t, i) == i >= 1 /\ i <= Len(t) /\ IsWordChar(t[i])

Boundary(t, i) == IsWordAt(t, i - 1) # IsWordAt(t, i)

\* (\d{1,6}\.\d{2}) anchored at i: the point must follow the digits, so the
\* run of digits from i has at most 6 digits
DecimalCore(t, i) ==
  LET e1 == SkipWhile(t, i, Digits)
  IN  IF e1 > i /\ e1 - i <= 6 /\ e1 <= Len(t) /\ t[e1] = "."
         /\ DigitAt(t, e1 + 1) /\ DigitAt(t, e1 + 2)
      THEN Span(i, e1 + 3) ELSE NoMatch

\* \b(\d{1,6}\.\d{2})\b anchored at i
BareDecimalAt(t, i) ==
  LET m == DecimalCore(t, i)
  IN  IF m.ok /\ Boundary(t, i) /\ Boundary(t, m.stop) THEN m ELSE NoMatch

\* the keyword kw (lower case) at i, letters compared without case
WordAt(t, i, kw) ==
  /\ i + Len(kw) - 1 <= Len(t)
  /\ \A k \in 1..Len(kw) : Lower(t[i + k - 1]) = kw[k]

\* the keywords of a label pattern, \s* between them, from i; the index after
\* the last one, 0 when they are not there
RECURSIVE WordsAt(_, _, _)
WordsAt(t, i, kws) ==
  IF kws = <<>> THEN i
  ELSE IF ~WordAt(t, i, Head(kws)) THEN 0
  ELSE IF Len(kws) = 1 THEN i + Len(kws[1])
  ELSE WordsAt(t, SkipWhile(t, i + Len(kws[1]), SpaceChars), Tail(kws))

\* \s*:?\s*\$?\s* from i: blanks, colon, dollar sign and [\d,] are disjoint
\* classes, so the greedy reading is the only one
AfterLabel(t, i) ==
  LET a == SkipWhile(t, i, SpaceChars)
      b == IF a <= Len(t) /\ t[a] = ":" THEN a + 1 ELSE a
      c == SkipWhile(t, b, SpaceChars)
      d == IF c <= Len(t) /\ t[c] = "$" THEN c + 1 ELSE c
  IN  SkipWhile(t, d, SpaceChars)

\* <keywords>\s*:?\s*\$?\s*(<amount>) anchored at i; strict chooses \d{2}
LabelAt(t, i, kws, strict) ==
  LET e == WordsAt(t, i, kws)
  IN  IF e = 0 THEN NoMatch
      ELSE IF strict THEN CapStrict(t, AfterLabel(t, e))
      ELSE CapLoose(t, AfterLabel(t, e))

\* text.match(pattern): the leftmost position where the pattern matches
RECURSIVE FirstLabel(_, _, _, _)
FirstLabel(t, i, kws, strict) ==
  IF i > Len(t) THEN NoMatch
  ELSE LET m == LabelAt(t, i, kws, strict)
       IN  IF m.ok THEN m ELSE FirstLabel(t, i + 1, kws, strict)

\* line.match(/(\d{1,6}\.\d{2})/)
RECURSIVE FirstDecimal(_, _)
FirstDecimal(t, i) ==
  IF i > Len(t) THEN NoMatch
  ELSE LET m == DecimalCore(t, i)
       IN  IF m.ok THEN m ELSE FirstDecimal(t, i + 1)

\* text.matchAll(/\$\s*([\d,]+\.?\d{0,2})/g) from i: the matches in order, the
\* search resuming where the last match ended
RECURSIVE DollarMatches(_, _)
DollarMatches(t, i) ==
  IF i > Len(t) THEN <<>>
  ELSE LET m == DollarAt(t, i)
       IN  IF m.ok THEN <<m>> \o DollarMatches(t, m.stop)
           ELSE DollarMatches(t, i + 1)

\* text.matchAll(/\b(\d{1,6}\.\d{2})\b/g) from i
RECURSIVE DecimalMatches(_, _)
DecimalMatches(t, i) ==
  IF i > Len(t) THEN <<>>
  ELSE LET m == BareDecimalAt(t, i)
       IN  IF m.ok THEN <<m>> \o DecimalMatches(t, m.stop)
           ELSE DecimalMatches(t, i + 1)

\* /subtotal|total|tax|discount|payment/i.test(line)
SummaryKeywords ==
  { <<"s","u","b","t","o","t","a","l">>, <<"t","o","t","a","l">>, <<"t","a","x">>,
    <<"d","i","s","c","o","u","n","t">>, <<"p","a","y","m","e","n","t">> }

IsSummaryLine(line) ==
  \E i \in 1..Len(line) : \E kw \in SummaryKeywords : WordAt(line, i, kw)

\* first index >= i of s holding the character c (Len(s)+1 if none)
RECURSIVE FindChar(_, _, _)
FindChar(s, i, c) ==
  IF i > Len(s) \/ s[i] = c THEN i ELSE FindChar(s, i + 1, c)

\* text.split("\n")
RECURSIVE Split(_)
Split(t) ==
  LET e == FindChar(t, 1, NL)
  IN  IF e > Len(t) THEN <<t>>
      ELSE <<SubSeq(t, 1, e - 1)>> \o Split(SubSeq(t, e + 1, Len(t)))

\* textArray.join("\n")
RECURSIVE Join(_)
Join(ls) ==
  IF ls = <<>> THEN <<>>
  ELSE IF Len(ls) = 1 THEN ls[1]
  ELSE ls[1] \o <<NL>> \o Join(Tail(ls))

(***************************************************************************)
(* parseInvoiceData, step by step                                          *)
(***************************************************************************)
\* a membership test that never finds the price
SetHasNever(seen, price) == FALSE

\* seenPrices.has(price), labeledPriceValues.has(value), itemPriceSet.has(price)
SetHas(seen, price) == price \in seen

\* the currency-marked loop body without its ceiling test
AddDollarPriceNoCeiling(acc, raw) ==
  LET price == StripCommas(raw)
  IN  IF ~SetHas(acc.seen, price) /\ ParseFloat(price) # NaN
      THEN [prices |-> Append(acc.prices, price), seen |-> acc.seen \cup {price}]
      ELSE acc

\* body of the loop over the currency-marked matches
AddDollarPrice(acc, raw) ==
  LET price == StripCommas(raw)
  IN  IF ~SetHas(acc.seen, price) /\ NumLt(ParseFloat(price), CeilingAll)
      THEN [prices |-> Append(acc.prices, price), seen |-> acc.seen \cup {price}]
      ELSE acc

\* body of the loop over the bare-decimal matches
AddDecimalPrice(acc, price) ==
  LET numPrice == ParseFloat(price)
  IN  IF ~SetHas(acc.seen, price) /\ NumLt(numPrice, CeilingAll) /\ NumLt(0, numPrice)
      THEN [prices |-> Append(acc.prices, price), seen |-> acc.seen \cup {price}]
      ELSE acc

RECURSIVE DollarLoop(_, _, _)
DollarLoop(acc, t, ms) ==
  IF ms = <<>> THEN acc
  ELSE DollarLoop(AddDollarPrice(acc, Capture(t, Head(ms))), t, Tail(ms))

RECURSIVE DecimalLoop(_, _, _)
DecimalLoop(acc, t, ms) ==
  IF ms = <<>> THEN acc
  ELSE DecimalLoop(AddDecimalPrice(acc, Capture(t, Head(ms))), t, Tail(ms))

\* the label patterns, in the order of the array
pricePatterns ==
  << [kws |-> << <<"s","u","b","t","o","t","a","l">> >>, label |-> "Subtotal"],
     [kws |-> << <<"s","u","b">>, <<"t","o","t","a","l">> >>, label |-> "Subtotal"],
     [kws |-> << <<"t","o","t","a","l">> >>, label |-> "Total"],
     [kws |-> << <<"a","m","o","u","n","t">> >>, label |-> "Amount"],
     [kws |-> << <<"t","a","x">> >>, label |-> "Tax"],
     [kws |-> << <<"d","i","s","c","o","u","n","t">> >>, label |-> "Discount"] >>

\* body of the loop over pricePatterns
AddLabeledPrice(acc, t, p) ==
  LET m     == FirstLabel(t, 1, p.kws, FALSE)
      value == StripCommas(Capture(t, m))
  IN  IF m.ok /\ ~SetHas(acc.values, value)
      THEN [labeled |-> Append(acc.labeled, [label |-> p.label, value |-> value]),
            values  |-> acc.values \cup {value}]
      ELSE acc

RECURSIVE LabeledLoop(_, _, _)
LabeledLoop(acc, t, ps) ==
  IF ps = <<>> THEN acc
  ELSE LabeledLoop(AddLabeledPrice(acc, t, Head(ps)), t, Tail(ps))

NotAvailable == <<"N", "/", "A">>

\* text.match(/total\s*:?\s*\$?\s*([\d,]+\.?\d{2})/i)
TotalMatch(t) == FirstLabel(t, 1, << <<"t","o","t","a","l">> >>, TRUE)

\* the total: the labelled one, else the largest price, else "N/A"
ResolveTotal(t, ps) ==
  LET totalMatch == TotalMatch(t)
  IN  IF totalMatch.ok THEN StripCommas(Capture(t, totalMatch))
      ELSE IF Len(ps) > 0
           THEN ToFixed2(MaxOf([k \in 1..Len(ps) |-> ParseFloat(ps[k])]))
      ELSE NotAvailable

\* the line loop body with a flag that holds for the summary line only
ItemStepNoLatch(st, line) ==
  IF IsSummaryLine(line) THEN [st EXCEPT !.found = TRUE]
  ELSE LET priceMatch == FirstDecimal(line, 1)
           price      == Capture(line, priceMatch)
           numPrice   == ParseFloat(price)
       IN  IF priceMatch.ok /\ ~SetHas(st.set, price)
              /\ NumLt(numPrice, CeilingItem) /\ NumLt(0, numPrice)
           THEN [st EXCEPT !.items = Append(st.items, price), !.set = st.set \cup {price},
                           !.found = FALSE]
           ELSE [st EXCEPT !.found = FALSE]

\* body of the loop over the lines
ItemStep(st, line) ==
  IF IsSummaryLine(line) THEN [st EXCEPT !.found = TRUE]
  ELSE IF ~st.found
  THEN LET priceMatch == FirstDecimal(line, 1)
           price      == Capture(line, priceMatch)
           numPrice   == ParseFloat(price)
       IN  IF priceMatch.ok /\ ~SetHas(st.set, price)
              /\ NumLt(numPrice, CeilingItem) /\ NumLt(0, numPrice)
           THEN [st EXCEPT !.items = Append(st.items, price), !.set = st.set \cup {price}]
           ELSE st
  ELSE st

RECURSIVE ItemLoop(_, _)
ItemLoop(st, ls) ==
  IF ls = <<>> THEN st ELSE ItemLoop(ItemStep(st, Head(ls)), Tail(ls))

EmptyPrices == [prices |-> <<>>, seen |-> {}]

\* parseInvoiceData(text) as one function
parseInvoiceData(t) ==
  LET a1 == DollarLoop(EmptyPrices, t, DollarMatches(t, 1))
      a2 == DecimalLoop(a1, t, DecimalMatches(t, 1))
      lb == LabeledLoop([labeled |-> <<>>, values |-> {}], t, pricePatterns)
      it == ItemLoop([items |-> <<>>, set |-> {}, found |-> FALSE], Split(t))
  IN  [allPrices     |-> a2.prices,
       itemPrices    |-> it.items,
       labeledPrices |-> lb.labeled,
       total         |-> ResolveTotal(t, a2.prices)]

(***************************************************************************)
(* The inputs: receipts of up to MaxLines lines, each a label followed by  *)
(* an amount, and named receipts (A to D are those of the specification).  *)
(***************************************************************************)
MaxLines == 2

ItemLabel == <<"T","e","a"," ">>
DollarLabel == <<"$">>
TotalLabel == <<"T","o","t","a","l",":"," ">>
SubtotalLabel == <<"S","u","b","t","o","t","a","l",":"," ","$">>
SubTotalLabel == <<"S","u","b"," ","t","o","t","a","l",":"," ">>

Labels == {ItemLabel, DollarLabel, TotalLabel, SubtotalLabel, SubTotalLabel}

Amounts ==
  { <<"3",".","5","0">>,
    <<"0",".","0","0">>,
    <<"1",",","5","0","0">>,
    <<"1","0","0","0",".","0","0">>,
    <<"1","0","0","0","0","0",".","0","0">> }

LinePool == {l \o a : l \in Labels, a \in Amounts}

RECURSIVE LineSeqs(_)
LineSeqs(n) ==
  IF n = 0 THEN {<<>>}
  ELSE LET shorter == LineSeqs(n - 1)
       IN  shorter \cup {Append(ls, l) : ls \in {x \in shorter : Len(x) = n - 1},
                                         l \in LinePool}

ScenarioA ==
  <<"T","o","t","a","l",":"," ","$","4","2",".","5","0">>

ScenarioB ==
  <<"C","o","f","f","e","e"," ","3",".","5","0","\n","B","a","g","e","l"," ","2",".","2","5","\n","S","u","b","t","o","t","a","l",":"," ","$","5",".","7","5","\n","T","a","x",":"," ","$","0",".","4","6","\n","T","o","t","a","l",":"," ","$","6",".","2","1">>

ScenarioC ==
  <<"I","t","e","m"," ","A"," ","1","0",".","0","0","\n","I","t","e","m"," ","B"," ","2","0",".","0","0">>

ScenarioD == <<>>

ScenarioE ==
  <<"P","e","n"," ","1",".","2","0","\n","A","m","o","u","n","t",":"," ","9",".","9","9","\n","D","i","s","c","o","u","n","t",":"," ","$","1",".","0","0","\n","P","a","y","m","e","n","t"," ","2",".","0","0","\n","T","a","x"," ","5">>

\* amounts written with three fraction digits
ScenarioF ==
  <<"W","i","d","g","e","t"," ","5",".","1","2","3","\n","T","o","t","a","l",":"," ","$","7",".","4","0","5">>

Scenarios == {ScenarioA, ScenarioB, ScenarioC, ScenarioD, ScenarioE, ScenarioF}

Texts == {Join(ls) : ls \in LineSeqs(MaxLines)} \cup Scenarios

(***************************************************************************)
(* State                                                                   *)
(***************************************************************************)
VARIABLES
  \* one call of parseInvoiceData
  text, pc, prices, seenPrices, labeledPrices, labeledPriceValues, total,
  lines, lineNo, itemPrices, itemPriceSet, foundSubtotal, parsed,
  \* the screen
  imageUri, extractedData, isProcessing, rawText, showRawText,
  photoCalls, ocrCalls, alerts, parseCalls, presses

parserVars ==
  <<text, pc, prices, seenPrices, labeledPrices, labeledPriceValues, total,
    lines, lineNo, itemPrices, itemPriceSet, foundSubtotal, parsed>>

screenVars ==
  <<imageUri, extractedData, isProcessing, rawText, showRawText,
    photoCalls, ocrCalls, alerts, parseCalls, presses>>

vars == <<parserVars, screenVars>>

\* useState(null), useState(""), useState(false)
Null == "null"
NoData == <<>>

ScreenInit ==
  /\ imageUri = Null
  /\ extractedData = NoData
  /\ isProcessing = FALSE
  /\ rawText = <<>>
  /\ showRawText = FALSE
  /\ photoCalls = 0
  /\ ocrCalls = <<>>
  /\ alerts = 0
  /\ parseCalls = 0
  /\ presses = 0

ParserEntry(t) ==
  /\ text = t
  /\ pc = "dollar"
  /\ prices = <<>>
  /\ seenPrices = {}
  /\ labeledPrices = <<>>
  /\ labeledPriceValues = {}
  /\ total = NotAvailable
  /\ lines = <<>>
  /\ lineNo = 0
  /\ itemPrices = <<>>
  /\ itemPriceSet = {}
  /\ foundSubtotal = FALSE
  /\ parsed = NoData

(***************************************************************************)
(* parseInvoiceData as a state machine: one action per loop or statement,  *)
(* one step per line of the item walk                                      *)
(***************************************************************************)
Init == (\E t \in Texts : ParserEntry(t)) /\ ScreenInit

ScanDollarPrices ==
  /\ pc = "dollar"
  /\ LET acc == DollarLoop([prices |-> prices, seen |-> seenPrices], text,
                           DollarMatches(text, 1))
     IN  prices' = acc.prices /\ seenPrices' = acc.seen
  /\ pc' = "decimal"
  /\ UNCHANGED <<text, labeledPrices, labeledPriceValues, total, lines, lineNo,
                 itemPrices, itemPriceSet, foundSubtotal, parsed, screenVars>>

ScanDecimalPrices ==
  /\ pc = "decimal"
  /\ LET acc == DecimalLoop([prices |-> prices, seen |-> seenPrices], text,
                            DecimalMatches(text, 1))
     IN  prices' = acc.prices /\ seenPrices' = acc.seen
  /\ pc' = "labeled"
  /\ UNCHANGED <<text, labeledPrices, labeledPriceValues, total, lines, lineNo,
                 itemPrices, itemPriceSet, foundSubtotal, parsed, screenVars>>

ScanLabeledPrices ==
  /\ pc = "labeled"
  /\ LET acc == LabeledLoop([labeled |-> labeledPrices, values |-> labeledPriceValues],
                            text, pricePatterns)
     IN  labeledPrices' = acc.labeled /\ labeledPriceValues' = acc.values
  /\ pc' = "total"
  /\ UNCHANGED <<text, prices, seenPrices, total, lines, lineNo,
                 itemPrices, itemPriceSet, foundSubtotal, parsed, screenVars>>

FindTotal ==
  /\ pc = "total"
  /\ total' = ResolveTotal(text, prices)
  /\ lines' = Split(text)
  /\ lineNo' = 1
  /\ pc' = "items"
  /\ UNCHANGED <<text, prices, seenPrices, labeledPrices, labeledPriceValues,
                 itemPrices, itemPriceSet, foundSubtotal, parsed, screenVars>>

WalkLine ==
  /\ pc = "items"
  /\ lineNo <= Len(lines)
  /\ LET st == ItemStep([items |-> itemPrices, set |-> itemPriceSet,
                         found |-> foundSubtotal], lines[lineNo])
     IN  /\ itemPrices' = st.items
         /\ itemPriceSet' = st.set
         /\ foundSubtotal' = st.found
  /\ lineNo' = lineNo + 1
  /\ UNCHANGED <<text, pc, prices, seenPrices, labeledPrices, labeledPriceValues,
                 total, lines, parsed, screenVars>>

Return ==
  /\ pc = "items"
  /\ lineNo > Len(lines)
  /\ parsed' = << [allPrices     |-> prices,
                   itemPrices    |-> itemPrices,
                   labeledPrices |-> labeledPrices,
                   total         |-> total] >>
  /\ pc' = "done"
  /\ UNCHANGED <<text, prices, seenPrices, labeledPrices, labeledPriceValues, total,
                 lines, lineNo, itemPrices, itemPriceSet, foundSubtotal, screenVars>>

Next ==
  \/ ScanDollarPrices
  \/ ScanDecimalPrices
  \/ ScanLabeledPrices
  \/ FindTotal
  \/ WalkLine
  \/ Return

Spec == Init /\ [][Next]_vars

(***************************************************************************)
(* The scan lifecycle.  Images are named by their uri; what the recogniser *)
(* reads off an image is fixed by the image.                               *)
(***************************************************************************)
MaxPresses == 3

Uris == {"file:a", "file:b", "file:blank"}

\* extractTextFromImage(uri) when it resolves: the lines read off the image
OcrLines(uri) ==
  CASE uri = "file:a" -> <<ScenarioA>>
    [] uri = "file:b" -> Split(ScenarioC)
    [] OTHER -> <<>>

ParserIdle ==
  /\ text = <<>>
  /\ pc = "idle"
  /\ prices = <<>>
  /\ seenPrices = {}
  /\ labeledPrices = <<>>
  /\ labeledPriceValues = {}
  /\ total = NotAvailable
  /\ lines = <<>>
  /\ lineNo = 0
  /\ itemPrices = <<>>
  /\ itemPriceSet = {}
  /\ foundSubtotal = FALSE
  /\ parsed = NoData

ScanInit == ParserIdle /\ ScreenInit

\* ocrCalls without its k-th element
Without(q, k) == SubSeq(q, 1, k - 1) \o SubSeq(q, k + 1, Len(q))

\* the capture button is rendered, and cameraRef.current is set, while no
\* image is held; takePicture runs up to its await
PressCapture ==
  /\ imageUri = Null
  /\ presses < MaxPresses
  /\ presses' = presses + 1
  /\ photoCalls' = photoCalls + 1
  /\ UNCHANGED <<imageUri, extractedData, isProcessing, rawText, showRawText,
                 ocrCalls, alerts, parseCalls, parserVars>>

\* takePictureAsync resolves with a photo: setImageUri, then
\* extractInvoiceData runs up to its await
PhotoResolves(uri) ==
  /\ photoCalls > 0
  /\ photoCalls' = photoCalls - 1
  /\ imageUri' = uri
  /\ isProcessing' = TRUE
  /\ ocrCalls' = Append(ocrCalls, uri)
  /\ UNCHANGED <<extractedData, rawText, showRawText, alerts, parseCalls, presses,
                 parserVars>>

\* takePictureAsync resolves with no photo or no uri: nothing happens
PhotoEmpty ==
  /\ photoCalls > 0
  /\ photoCalls' = photoCalls - 1
  /\ UNCHANGED <<imageUri, extractedData, isProcessing, rawText, showRawText,
                 ocrCalls, alerts, parseCalls, presses, parserVars>>

\* takePictureAsync rejects: the catch block alerts
PhotoThrows ==
  /\ photoCalls > 0
  /\ photoCalls' = photoCalls - 1
  /\ alerts' = alerts + 1
  /\ UNCHANGED <<imageUri, extractedData, isProcessing, rawText, showRawText,
                 ocrCalls, parseCalls, presses, parserVars>>

\* extractTextFromImage resolves: join, setRawText, parse, setExtractedData,
\* and the finally block
OcrReturns(k) ==
  /\ k \in 1..Len(ocrCalls)
  /\ LET joined == Join(OcrLines(ocrCalls[k]))
     IN  /\ rawText' = joined
         /\ extractedData' = <<parseInvoiceData(joined)>>
  /\ parseCalls' = parseCalls + 1
  /\ isProcessing' = FALSE
  /\ ocrCalls' = Without(ocrCalls, k)
  /\ UNCHANGED <<imageUri, showRawText, photoCalls, alerts, presses, parserVars>>

\* extractTextFromImage rejects: the catch block alerts, then the finally block
OcrThrows(k) ==
  /\ k \in 1..Len(ocrCalls)
  /\ alerts' = alerts + 1
  /\ isProcessing' = FALSE
  /\ ocrCalls' = Without(ocrCalls, k)
  /\ UNCHANGED <<imageUri, extractedData, rawText, showRawText, photoCalls,
                 parseCalls, presses, parserVars>>

\* the "Scan Another Invoice" button is rendered while an image is held and
\* isProcessing is false
resetScanner ==
  /\ imageUri # Null
  /\ ~isProcessing
  /\ imageUri' = Null
  /\ extractedData' = NoData
  /\ rawText' = <<>>
  /\ isProcessing' = FALSE
  /\ showRawText' = FALSE
  /\ UNCHANGED <<photoCalls, ocrCalls, alerts, parseCalls, presses, parserVars>>

\* the raw-text toggle is rendered inside the results
ToggleRawText ==
  /\ imageUri # Null
  /\ ~isProcessing
  /\ extractedData # NoData
  /\ showRawText' = ~showRawText
  /\ UNCHANGED <<imageUri, extractedData, isProcessing, rawText, photoCalls,
                 ocrCalls, alerts, parseCalls, presses, parserVars>>

ScanNext ==
  \/ PressCapture
  \/ \E uri \in Uris : PhotoResolves(uri)
  \/ PhotoEmpty
  \/ PhotoThrows
  \/ \E k \in 1..MaxPresses : OcrReturns(k)
  \/ \E k \in 1..MaxPresses : OcrThrows(k)
  \/ resetScanner
  \/ ToggleRawText

ScanSpec == ScanInit /\ [][ScanNext]_vars

(***************************************************************************)
(* Vocabulary of the properties                                            *)
(***************************************************************************)
Elems(q) == {q[k] : k \in 1..Len(q)}

NoRepeat(q) == \A i, j \in 1..Len(q) : i # j => q[i] # q[j]

\* q without the later occurrences of each element
RECURSIVE FirstOccurrences(_)
FirstOccurrences(q) ==
  IF q = <<>> THEN <<>>
  ELSE LET front == SubSeq(q, 1, Len(q) - 1)
       IN  IF q[Len(q)] \in Elems(front) THEN FirstOccurrences(front)
           ELSE Append(FirstOccurrences(front), q[Len(q)])

\* digits, a point, exactly two digits
TwoFraction(v) ==
  /\ Len(v) >= 4
  /\ v[Len(v) - 2] = "."
  /\ \A k \in 1..Len(v) : k # Len(v) - 2 => IsDigit(v[k])

Done == pc = "done"

Result == parsed[1]

Values(ms, t) == [k \in 1..Len(ms) |-> StripCommas(Capture(t, ms[k]))]

DollarValues == Values(DollarMatches(text, 1), text)

DecimalValues == Values(DecimalMatches(text, 1), text)

InRangeAll(v) == NumLt(ParseFloat(v), CeilingAll)

InRangeAllPositive(v) == NumLt(ParseFloat(v), CeilingAll) /\ NumLt(0, ParseFloat(v))

InRangeItem(v) == NumLt(ParseFloat(v), CeilingItem) /\ NumLt(0, ParseFloat(v))

\* the lines above the first summary line
ItemLines ==
  LET ls    == Split(text)
      sums  == {k \in 1..Len(ls) : IsSummaryLine(ls[k])}
      first == IF sums = {} THEN Len(ls) + 1
               ELSE CHOOSE k \in sums : \A j \in sums : k <= j
  IN  SubSeq(ls, 1, first - 1)

\* the first price-shaped token of each line that has one
LineValues(ls) ==
  LET hit == SelectSeq(ls, LAMBDA l : FirstDecimal(l, 1).ok)
  IN  [k \in 1..Len(hit) |-> Capture(hit[k], FirstDecimal(hit[k], 1))]

\* the label patterns that match somewhere, in the order of the array
MatchedPatterns == SelectSeq(pricePatterns, LAMBDA p : FirstLabel(text, 1, p.kws, FALSE).ok)

LabelValue(p) == StripCommas(Capture(text, FirstLabel(text, 1, p.kws, FALSE)))

\* the capture of m stops after two fraction digits although the number in
\* the text goes on: the number is written with more than 2 fraction digits
Truncated(t, m) ==
  m.ok /\ m.stop - m.start >= 3 /\ t[m.stop - 3] = "." /\ DigitAt(t, m.stop)

\* the values some match of the pattern group captures in full
WholeValues(ms, t) == {StripCommas(Capture(t, m)) : m \in {x \in Elems(ms) : ~Truncated(t, x)}}

\* C1: on the receipt "Coffee 3.50 / Bagel 2.25 / Subtotal: $5.75 / Tax: $0.46 /
\* Total: $6.21" the parser returns the item amounts in order, labelled
\* prices holding the Subtotal, the Tax and the Total amount, and as total
\* the amount of the Total line, not that of the Subtotal line.
C1_ScenarioB ==
  (Done /\ text = ScenarioB) =>
    /\ Result.itemPrices = << <<"3",".","5","0">>, <<"2",".","2","5">> >>
    /\ [label |-> "Subtotal", value |-> <<"5",".","7","5">>] \in Elems(Result.labeledPrices)
    /\ [label |-> "Tax", value |-> <<"0",".","4","6">>] \in Elems(Result.labeledPrices)
    /\ [label |-> "Total", value |-> <<"6",".","2","1">>] \in Elems(Result.labeledPrices)
    /\ Result.total = <<"6",".","2","1">>

\* a "total" label followed by an amount written with exactly two fraction
\* digits occurs in t (an integer after the label does not count)
TotalLabelledTwoFraction(t) ==
  \E i \in 1..Len(t) :
    /\ WordAt(t, i, <<"t","o","t","a","l">>)
    /\ LET j  == AfterLabel(t, i + 5)
           e1 == SkipWhile(t, j, DigitComma)
       IN  /\ e1 > j
           /\ e1 <= Len(t) /\ t[e1] = "."
           /\ DigitAt(t, e1 + 1) /\ DigitAt(t, e1 + 2) /\ ~DigitAt(t, e1 + 3)

\* C2: total fallback law: when no total-labelled amount with exactly two
\* fraction digits occurs in the text and allPrices is not empty, the total
\* is the numerically largest element of allPrices written with two
\* fraction digits.
C2_TotalFallback ==
  (Done /\ ~TotalLabelledTwoFraction(text) /\ Len(Result.allPrices) > 0) =>
    \E p \in Elems(Result.allPrices) :
      /\ \A q \in Elems(Result.allPrices) : ParseFloat(q) <= ParseFloat(p)
      /\ Result.total = ToFixed2(ParseFloat(p))

\* C3, strict form: every element of allPrices is above 0 and below 100000,
\* whichever pattern found it, and every element of itemPrices is above 0 and
\* below 1000.
C3_RangeStrict ==
  /\ \A p \in Elems(prices) : InRangeAllPositive(p)
  /\ \A p \in Elems(itemPrices) : InRangeItem(p)

\* C3, with the currency-marked zero: every element of allPrices is at least 0 and below 100000,
\* and is above 0 unless the currency-marked pattern captured it; every
\* element of itemPrices is above 0 and below 1000.
C3_Range ==
  /\ \A p \in Elems(prices) :
       /\ ParseFloat(p) >= 0 /\ ParseFloat(p) < CeilingAll
       /\ ParseFloat(p) = 0 => p \in Elems(DollarValues)
  /\ \A p \in Elems(itemPrices) : ParseFloat(p) > 0 /\ ParseFloat(p) < CeilingItem

\* a finished parse that kept a currency-marked zero and collected an item
\* price
C3_Witness ==
  /\ Done
  /\ \E p \in Elems(Result.allPrices) : ParseFloat(p) = 0
  /\ Result.itemPrices # <<>>

\* C4: a number written with more than two fraction digits contributes
\* nothing: every value of allPrices, itemPrices and labeledPrices, and a
\* matched total, is captured in full by some match of the pattern that feeds
\* it, never only as the two-digit prefix of a longer fraction.
C4_NoLongFraction ==
  Done =>
    /\ Elems(Result.allPrices) \subseteq
         WholeValues(DollarMatches(text, 1) \o DecimalMatches(text, 1), text)
    /\ \A v \in Elems(Result.itemPrices) :
         \E l \in Elems(ItemLines) :
           LET m == FirstDecimal(l, 1) IN m.ok /\ ~Truncated(l, m) /\ Capture(l, m) = v
    /\ \A e \in Elems(Result.labeledPrices) :
         \E p \in Elems(MatchedPatterns) :
           /\ p.label = e.label /\ LabelValue(p) = e.value
           /\ ~Truncated(text, FirstLabel(text, 1, p.kws, FALSE))
    /\ TotalMatch(text).ok => ~Truncated(text, TotalMatch(text))

\* the candidates of allPrices that pass the range test, in the order the
\* two scans meet them
AcceptedPrices ==
  SelectSeq(DollarValues, InRangeAll) \o SelectSeq(DecimalValues, InRangeAllPositive)

AcceptedItems == SelectSeq(LineValues(ItemLines), InRangeItem)

LabelledValues == [k \in 1..Len(labeledPrices) |-> labeledPrices[k].value]

\* C5: dedup invariant: allPrices, itemPrices and the values of labeledPrices
\* never hold a string twice, and each element kept sits where its first
\* accepted occurrence put it.
C5_Dedup ==
  /\ NoRepeat(prices) /\ NoRepeat(itemPrices) /\ NoRepeat(LabelledValues)
  /\ Done =>
       /\ Result.allPrices = FirstOccurrences(AcceptedPrices)
       /\ Result.itemPrices = FirstOccurrences(AcceptedItems)
       /\ [k \in 1..Len(Result.labeledPrices) |-> Result.labeledPrices[k].value]
            = FirstOccurrences([k \in 1..Len(MatchedPatterns) |->
                                  LabelValue(MatchedPatterns[k])])

\* a finished parse in which allPrices and labeledPrices each dropped a
\* repeat, and items were collected
C5_Witness ==
  /\ Done
  /\ Len(Result.allPrices) > 0 /\ Len(Result.allPrices) < Len(AcceptedPrices)
  /\ Len(Result.labeledPrices) > 0 /\ Len(Result.labeledPrices) < Len(MatchedPatterns)
  /\ Len(Result.itemPrices) > 0

\* C6: summary monotonicity: once the walk has seen a summary line the flag
\* stays set and itemPrices stops growing, the summary line itself adds
\* nothing, and the itemPrices returned are those of the lines above the
\* first summary line.
C6_SummaryMonotone ==
  /\ [][/\ foundSubtotal => (foundSubtotal' /\ itemPrices' = itemPrices)
        /\ (pc = "items" /\ lineNo <= Len(lines) /\ IsSummaryLine(lines[lineNo]))
             => (foundSubtotal' /\ itemPrices' = itemPrices)]_vars
  /\ [](Done => Result.itemPrices
                  = ItemLoop([items |-> <<>>, set |-> {}, found |-> FALSE], ItemLines).items)

\* a finished walk that passed a summary line and then a line whose price
\* would have been collected above it
C6_Witness ==
  /\ Done
  /\ foundSubtotal
  /\ \E k \in 1..Len(lines) :
       /\ k > Len(ItemLines) + 1
       /\ ~IsSummaryLine(lines[k])
       /\ LET m == FirstDecimal(lines[k], 1)
          IN  m.ok /\ InRangeItem(Capture(lines[k], m))
                   /\ Capture(lines[k], m) \notin Elems(Result.itemPrices)

\* C7: every money string of the result has exactly two digits after the
\* point: the elements of allPrices and itemPrices, the labelled values, and
\* the total unless it is "N/A".
C7_TwoFraction ==
  Done =>
    /\ \A p \in Elems(Result.allPrices) \cup Elems(Result.itemPrices) : TwoFraction(p)
    /\ \A e \in Elems(Result.labeledPrices) : TwoFraction(e.value)
    /\ Result.total # NotAvailable => TwoFraction(Result.total)

\* the amount at the leftmost match of the patterns of a label
FirstAmountOf(label) ==
  LET ps   == {p \in Elems(MatchedPatterns) : p.label = label}
      at(p) == FirstLabel(text, 1, p.kws, FALSE).start
      p0   == CHOOSE p \in ps : \A q \in ps : at(p) <= at(q)
  IN  LabelValue(p0)

\* C9: labeledPrices holds at most one entry per label, and the entry of a
\* label carries the amount of the first occurrence of that label in the text.
C9_OnePerLabel ==
  Done =>
    /\ \A i, j \in 1..Len(Result.labeledPrices) :
         i # j => Result.labeledPrices[i].label # Result.labeledPrices[j].label
    /\ \A e \in Elems(Result.labeledPrices) : e.value = FirstAmountOf(e.label)

\* C8: when extractTextFromImage throws or returns no lines, the handler
\* alerts, does not call the parser, leaves extractedData null and ends with
\* isProcessing false.
C8_RecognitionFailure ==
  [][(\E k \in 1..Len(ocrCalls) :
        OcrThrows(k) \/ (OcrLines(ocrCalls[k]) = <<>> /\ OcrReturns(k)))
     => /\ alerts' = alerts + 1
        /\ parseCalls' = parseCalls
        /\ extractedData' = NoData
        /\ ~isProcessing']_vars

\* C10: at most one extraction is in flight, isProcessing is true while one
\* is, and results on display belong to the image held in imageUri.
C10_ScanLifecycle ==
  /\ Len(ocrCalls) <= 1
  /\ Len(ocrCalls) > 0 => isProcessing
  /\ (imageUri # Null /\ ~isProcessing /\ extractedData # NoData) =>
       /\ rawText = Join(OcrLines(imageUri))
       /\ extractedData = <<parseInvoiceData(Join(OcrLines(imageUri)))>>

====
